---- MODULE Spec2Model ----
(***************************************************************************)
(* Route-planning core of the bar specials dashboard (src/side.py):        *)
(* generate_optimal_route, calculate_deal_score, generate_bar_reason and   *)
(* generate_route_tips.                                                    *)
(*                                                                         *)
(* Texts are sequences of one-character strings, so that substring tests   *)
(* and lower-casing are computed rather than assumed.  Scores are Python   *)
(* numbers; they are held as integers counting 1/Unit, and every float     *)
(* operation whose exact result may not be representable is rounded to the *)
(* nearest float of Prec significant bits, ties to even, as IEEE-754       *)
(* arithmetic does with 53 bits.                                           *)
(***************************************************************************)
EXTENDS Integers, Sequences, FiniteSets, TLC

\* ------------------------------------------------------------------ bounds

\* Rows of the specials table.
MaxRows == 3

\* Fragments concatenated into a deal text handed to calculate_deal_score.
MaxFrags == 3

\* Stops of a route handed to generate_route_tips.
MaxStops == 4

\* Significant bits of a float (53 in the program's doubles).
Prec == 8

\* ----------------------------------------------------------------- numbers

RECURSIVE Pow2(_)
Pow2(n) == IF n = 0 THEN 1 ELSE 2 * Pow2(n - 1)

\* One, in the model's fixed-point unit.  2^-(Prec+2) is fine enough to hold
\* exactly every product and sum the program forms before it is rounded.
Unit == Pow2(Prec + 2)

\* The integer or exactly representable literal n/d (5, 10, 0.5, 1.5, 2).
Num(n, d) == (n * Unit) \div d

Min(a, b) == IF a <= b THEN a ELSE b

\* The largest power of two that is <= x (x >= 1).
RECURSIVE Binade(_)
Binade(x) == IF x < 2 THEN 1 ELSE 2 * Binade(x \div 2)

\* Distance between neighbouring floats around x >= 1: the binade's power of
\* two divided by 2^(Prec-1); below one unit every value is representable.
Spacing(x) ==
    LET b == Binade(x) IN
    IF b >= Pow2(Prec - 1) THEN b \div Pow2(Prec - 1) ELSE 1

\* Round to nearest float, ties to even.
RoundFloat(x) ==
    IF x <= 0 THEN 0
    ELSE LET q   == Spacing(x)
             lo  == (x \div q) * q
             rem == x - lo
         IN  IF 2 * rem < q THEN lo
             ELSE IF 2 * rem > q THEN lo + q
             ELSE IF (lo \div q) % 2 = 0 THEN lo ELSE lo + q

\* Float addition and multiplication.  In every product the program forms,
\* x is a multiple of Unit/2 and y is even, so (x * y) \div Unit is exact.
FAdd(x, y) == RoundFloat(x + y)
FMul(x, y) == RoundFloat((x * y) \div Unit)

\* The literal 0.3 is not a binary fraction: the float nearest to 3/10.
\* Floats in [1/4, 1/2) are 2 units apart.
Point3 == 2 * ((3 * Unit + 10) \div 20)

\* -------------------------------------------------------------------- text

UpperToLower ==
    ("A" :> "a") @@ ("B" :> "b") @@ ("C" :> "c") @@ ("D" :> "d") @@
    ("E" :> "e") @@ ("F" :> "f") @@ ("G" :> "g") @@ ("H" :> "h") @@
    ("I" :> "i") @@ ("J" :> "j") @@ ("K" :> "k") @@ ("L" :> "l") @@
    ("M" :> "m") @@ ("N" :> "n") @@ ("O" :> "o") @@ ("P" :> "p") @@
    ("Q" :> "q") @@ ("R" :> "r") @@ ("S" :> "s") @@ ("T" :> "t") @@
    ("U" :> "u") @@ ("V" :> "v") @@ ("W" :> "w") @@ ("X" :> "x") @@
    ("Y" :> "y") @@ ("Z" :> "z")

\* str.lower()
Lower(s) ==
    [i \in 1..Len(s) |->
        IF s[i] \in DOMAIN UpperToLower THEN UpperToLower[s[i]] ELSE s[i]]

\* word in s
Contains(s, word) ==
    \E i \in 1..(Len(s) - Len(word) + 1) :
        SubSeq(s, i, i + Len(word) - 1) = word

\* ' '.join(parts)
RECURSIVE Join(_)
Join(parts) ==
    IF Len(parts) = 0 THEN <<>>
    ELSE IF Len(parts) = 1 THEN parts[1]
    ELSE parts[1] \o <<" ">> \o Join(Tail(parts))

\* The literals of calculate_deal_score.
Dollar1 == <<"$", "1">>
Dollar2 == <<"$", "2">>
Dollar3 == <<"$", "3">>
Dollar4 == <<"$", "4">>
Dollar5 == <<"$", "5">>
HappyHour == <<"h", "a", "p", "p", "y", " ", "h", "o", "u", "r">>
HalfOff == <<"h", "a", "l", "f", " ", "o", "f", "f">>
Draft == <<"d", "r", "a", "f", "t">>
FiftyCent == <<"5", "0", " ", "c", "e", "n", "t">>
Pitcher == <<"p", "i", "t", "c", "h", "e", "r">>
Wine == <<"w", "i", "n", "e">>
Cocktail == <<"c", "o", "c", "k", "t", "a", "i", "l">>
Premium == <<"p", "r", "e", "m", "i", "u", "m">>

value_words == <<HappyHour, HalfOff, Draft, FiftyCent, Pitcher>>
premium_words == <<Wine, Cocktail, Premium>>

\* Deal texts and fragments of deal texts the model feeds in.
TxtDraftsHappyHour ==
    <<"$", "1", " ", "d", "r", "a", "f", "t", "s", ",", " ",
      "h", "a", "p", "p", "y", " ", "h", "o", "u", "r">>
TxtOneBeer == <<"$", "1", " ", "B", "e", "e", "r">>
TxtWineNight == <<"W", "i", "n", "e", " ", "n", "i", "g", "h", "t">>
TxtHappy == <<"H", "a", "p", "p", "y", " ">>
TxtHour == <<"H", "o", "u", "r">>
TxtHalfOffPitchers ==
    <<"h", "a", "l", "f", " ", "o", "f", "f", " ",
      "p", "i", "t", "c", "h", "e", "r", "s">>
TxtFiftyCent == <<"5", "0", " ", "c", "e", "n", "t", " ">>
TxtPremiumCocktail ==
    <<"p", "r", "e", "m", "i", "u", "m", " ",
      "c", "o", "c", "k", "t", "a", "i", "l">>
TxtGetHappy == <<"G", "e", "t", " ", "h", "a", "p", "p", "y">>
TxtHourSpecial == <<"h", "o", "u", "r", " ", "s", "p", "e", "c", "i", "a", "l">>

Fragments ==
    { TxtDraftsHappyHour, TxtOneBeer, Dollar2, Dollar3, Dollar4, Dollar5,
      TxtHappy, TxtHour, TxtHalfOffPitchers, TxtFiftyCent, TxtWineNight,
      TxtPremiumCocktail }

RECURSIVE Concat(_)
Concat(parts) ==
    IF Len(parts) = 0 THEN <<>> ELSE parts[1] \o Concat(Tail(parts))

\* Every concatenation of at most MaxFrags fragments, the empty text included.
DealTexts ==
    { Concat(p) : p \in UNION { [1..n -> Fragments] : n \in 0..MaxFrags } }

\* ------------------------------------------------------ calculate_deal_score

\* if '$1' ... elif '$3' ... elif '$4' ...: the amount added to the score.
PriceBonus(deal_text) ==
    IF Contains(deal_text, Dollar1) \/ Contains(deal_text, Dollar2)
        THEN Num(3, 1)
    ELSE IF Contains(deal_text, Dollar3)
        THEN Num(2, 1)
    ELSE IF Contains(deal_text, Dollar4) \/ Contains(deal_text, Dollar5)
        THEN Num(1, 1)
    ELSE 0

\* for word in words: if word in deal_lower: score += step
RECURSIVE AddForWords(_, _, _, _)
AddForWords(score, words, deal_lower, step) ==
    IF Len(words) = 0 THEN score
    ELSE AddForWords(
            IF Contains(deal_lower, Head(words)) THEN FAdd(score, step) ELSE score,
            Tail(words), deal_lower, step)

calculate_deal_score_uncapped(deal_text) ==
    LET deal_lower == Lower(deal_text)
        priced     == Num(5, 1) + PriceBonus(deal_text)
        valued     == AddForWords(priced, value_words, deal_lower, Num(1, 1))
    IN  AddForWords(valued, premium_words, deal_lower, Num(1, 2))

calculate_deal_score(deal_text) ==
    LET deal_lower == Lower(deal_text)
        priced     == Num(5, 1) + PriceBonus(deal_text)
        valued     == AddForWords(priced, value_words, deal_lower, Num(1, 1))
        premiumed  == AddForWords(valued, premium_words, deal_lower, Num(1, 2))
    IN  Min(premiumed, Num(10, 1))

\* ------------------------------------------------------ generate_bar_reason

\* f"{bar_info['rating']}": str() of an int rating.
IntStr ==
    (1 :> "1") @@ (2 :> "2") @@ (3 :> "3") @@ (4 :> "4") @@ (5 :> "5") @@
    (6 :> "6") @@ (7 :> "7") @@ (8 :> "8") @@ (9 :> "9") @@ (10 :> "10")

\* A reason is the sequence of the pieces of its (f-)string.
PerfectStarter == <<"Perfect starter - one of your top-rated bars">>
GreatKickOff == <<"Great way to kick off the night">>
PerfectFinale == <<"Perfect finale to your night out">>
ExcellentMid == <<"Excellent mid-night stop">>
HighRating(rating) == <<"High personal rating (", IntStr[rating], "/10)">>
GreatDeals == <<"Great drink deals">>
TryNew == <<"Good opportunity to try something new">>
SolidChoice == <<"Solid choice for your route">>

\* reasons.append(x) if cond
AppendIf(reasons, cond, x) == IF cond THEN Append(reasons, x) ELSE reasons

generate_bar_reason_last(bar_info, position, style, budget_focus) ==
    LET r1 == IF position = 0
                  THEN IF bar_info.rating >= 8
                           THEN <<PerfectStarter>> ELSE <<GreatKickOff>>
              ELSE IF position = Len(<<>>) - 1
                  THEN <<PerfectFinale>>
              ELSE <<ExcellentMid>>
        r2 == AppendIf(r1, bar_info.rating >= 8, HighRating(bar_info.rating))
    IN  r2[Len(r2)]

\* position is the 0-based index enumerate() gives.
generate_bar_reason(bar_info, position, style, budget_focus) ==
    LET r1 == IF position = 0
                  THEN IF bar_info.rating >= 8
                           THEN <<PerfectStarter>> ELSE <<GreatKickOff>>
              ELSE IF position = Len(<<>>) - 1
                  THEN <<PerfectFinale>>
              ELSE <<ExcellentMid>>
        r2 == AppendIf(r1, bar_info.rating >= 8, HighRating(bar_info.rating))
        r3 == AppendIf(r2, budget_focus /\ bar_info.deal_score >= Num(7, 1),
                       GreatDeals)
        reasons == AppendIf(r3, style = "Adventure Mix" /\ bar_info.rating < 7,
                            TryNew)
    IN  IF Len(reasons) > 0 THEN reasons[1] ELSE SolidChoice

\* --------------------------------------------------- generate_optimal_route

Bars == {"A", "B"}
Days == {"Friday", "Saturday"}
Styles == {"Optimized", "High-rated Only", "Adventure Mix"}

\* Ratings the slider can give (1..10); these cover both sides of the
\* rating >= 8 test and the Friday scenario.
Ratings == {3, 8, 9}

\* Records the specials table is made of.
Specials ==
    { [Bar |-> "A", Day |-> "Friday",   Deal |-> TxtOneBeer],
      [Bar |-> "B", Day |-> "Friday",   Deal |-> TxtWineNight],
      [Bar |-> "A", Day |-> "Saturday", Deal |-> TxtWineNight] }

\* random.random(): k / 2^Prec for 0 <= k < 2^Prec; the smallest and the
\* largest value.
RandomValues ==
    { (k * Unit) \div Pow2(Prec) : k \in {0, Pow2(Prec) - 1} }

\* The draw counted from the upper end: b + (b - a) * random().
uniform_from_b(a, b, rnd) == FAdd(b, FMul(b - a, rnd))

\* random.uniform(a, b) == a + (b - a) * random()
uniform(a, b, rnd) == FAdd(a, FMul(b - a, rnd))

\* df[df['Day'] == day]
DayData(table, d) == SelectSeq(table, LAMBDA row : row.Day = d)

total_score_swapped(base_rating, deal_score, st, random_bonus) ==
    IF st = "High-rated Only"
        THEN FMul(Num(base_rating, 1), Num(3, 2))
    ELSE IF st = "Adventure Mix"
        THEN FAdd(FAdd(Num(base_rating, 1), FMul(deal_score, Num(1, 2))),
                  random_bonus)
    ELSE FAdd(Num(base_rating, 1), FMul(deal_score, Point3))

\* Lines 492-499; random_bonus is read in the Adventure Mix branch alone.
total_score(base_rating, deal_score, st, random_bonus) ==
    IF st = "High-rated Only"
        THEN FMul(Num(base_rating, 1), Num(3, 2))
    ELSE IF st = "Adventure Mix"
        THEN FAdd(FAdd(Num(base_rating, 1), FMul(deal_score, Point3)),
                  random_bonus)
    ELSE FAdd(Num(base_rating, 1), FMul(deal_score, Num(1, 2)))

\* One pass of the loop body over a row whose bar has a rating.
ScoredBar(row, base_rating, st, budget, random_bonus) ==
    LET deal_score == IF budget THEN calculate_deal_score(row.Deal)
                      ELSE Num(5, 1)
    IN  [bar |-> row.Bar, deal |-> row.Deal, rating |-> base_rating,
         deal_score |-> deal_score,
         total_score |-> total_score(base_rating, deal_score, st, random_bonus)]

\* A variant that defaults a missing rating to 5 instead of raising.
RECURSIVE ScoreRowsDefaulting(_, _, _, _, _, _)
ScoreRowsDefaulting(acc, rows, ranks, st, budget, bonuses) ==
    IF Len(rows) = 0 THEN [raised |-> FALSE, rows |-> acc]
    ELSE ScoreRowsDefaulting(
            Append(acc, ScoredBar(Head(rows),
                                  IF Head(rows).Bar \in DOMAIN ranks
                                      THEN ranks[Head(rows).Bar] ELSE 5,
                                  st, budget, Head(bonuses))),
            Tail(rows), ranks, st, budget, Tail(bonuses))

\* The loop of lines 483-507: rankings[bar] raises KeyError at the first row
\* whose bar has no rating; otherwise every row is appended in order.
RECURSIVE ScoreRows(_, _, _, _, _, _)
ScoreRows(acc, rows, ranks, st, budget, bonuses) ==
    IF Len(rows) = 0 THEN [raised |-> FALSE, rows |-> acc]
    ELSE IF Head(rows).Bar \notin DOMAIN ranks
        THEN [raised |-> TRUE, rows |-> acc]
    ELSE ScoreRows(
            Append(acc, ScoredBar(Head(rows), ranks[Head(rows).Bar],
                                  st, budget, Head(bonuses))),
            Tail(rows), ranks, st, budget, Tail(bonuses))

\* A sort that puts x before the entries that tie with it.
RECURSIVE InsertBeforeTies(_, _)
InsertBeforeTies(sorted, x) ==
    IF Len(sorted) = 0 THEN <<x>>
    ELSE IF Head(sorted).total_score > x.total_score
        THEN <<Head(sorted)>> \o InsertBeforeTies(Tail(sorted), x)
    ELSE <<x>> \o sorted

\* x goes behind every entry whose score is >= its own.
RECURSIVE InsertDesc(_, _)
InsertDesc(sorted, x) ==
    IF Len(sorted) = 0 THEN <<x>>
    ELSE IF Head(sorted).total_score >= x.total_score
        THEN <<Head(sorted)>> \o InsertDesc(Tail(sorted), x)
    ELSE <<x>> \o sorted

RECURSIVE SortWith(_, _)
SortWith(acc, rest) ==
    IF Len(rest) = 0 THEN acc
    ELSE SortWith(InsertDesc(acc, Head(rest)), Tail(rest))

RECURSIVE SortTiesReversed(_, _)
SortTiesReversed(acc, rest) ==
    IF Len(rest) = 0 THEN acc
    ELSE SortTiesReversed(InsertBeforeTies(acc, Head(rest)), Tail(rest))

SortDescUnstable(entries) == SortTiesReversed(<<>>, entries)

\* list.sort(key=total_score, reverse=True): stable, so entries that tie
\* keep the order they were appended in.
SortDesc(entries) == SortWith(<<>>, entries)

\* bars_with_scores[:num_stops]
Slice(entries, n) == SubSeq(entries, 1, Min(n, Len(entries)))

\* Lines 514-522.
BuildRoute(selected_bars, st, budget) ==
    [i \in 1..Len(selected_bars) |->
        [bar    |-> selected_bars[i].bar,
         deal   |-> selected_bars[i].deal,
         score  |-> selected_bars[i].total_score,
         reason |-> generate_bar_reason(selected_bars[i], i - 1, st, budget)]]

TooFewLE(day_data, n) == Len(day_data) <= n

\* if len(day_data) < num_stops: return []
TooFew(day_data, n) == Len(day_data) < n

\* ------------------------------------------------------- generate_route_tips

TipRide == "Consider ride-sharing or designating a driver for safety"
TipWater == "Stay hydrated - drink water between stops"
TipHighRated ==
    "You're hitting your favorite spots - enjoy the familiar atmosphere!"
TipAdventure ==
    "Great mix of favorites and new experiences - keep an open mind!"
TipOptimized == "Well-balanced route optimizing both preferences and value"
TipBudgetSpecials == "Focus on the specials to maximize your budget"
TipBudgetHappyHour == "Pay attention to happy hour times for extra savings"
TipPace == "Pace yourself - that's a lot of stops for one night!"
TipHappyHour == "Plan your timing around happy hour specials"
TipDraft == "Several draft specials - great for beer lovers!"

\* ' '.join([stop['deal'].lower() for stop in route])
DealsText(stops) == Join([i \in 1..Len(stops) |-> Lower(stops[i].deal)])

generate_route_tips_pace_late(stops, st, budget) ==
    LET t1 == <<TipRide, TipWater>>
        t2 == Append(t1, IF st = "High-rated Only" THEN TipHighRated
                         ELSE IF st = "Adventure Mix" THEN TipAdventure
                         ELSE TipOptimized)
        t3 == IF budget THEN t2 \o <<TipBudgetSpecials, TipBudgetHappyHour>>
              ELSE t2
        t4 == AppendIf(t3, Len(stops) > 4, TipPace)
        deals_text == DealsText(stops)
        t5 == AppendIf(t4, Contains(deals_text, HappyHour), TipHappyHour)
    IN  AppendIf(t5, Contains(deals_text, Draft), TipDraft)

generate_route_tips(stops, st, budget) ==
    LET t1 == <<TipRide, TipWater>>
        t2 == Append(t1, IF st = "High-rated Only" THEN TipHighRated
                         ELSE IF st = "Adventure Mix" THEN TipAdventure
                         ELSE TipOptimized)
        t3 == IF budget THEN t2 \o <<TipBudgetSpecials, TipBudgetHappyHour>>
              ELSE t2
        t4 == AppendIf(t3, Len(stops) >= 4, TipPace)
        deals_text == DealsText(stops)
        t5 == AppendIf(t4, Contains(deals_text, HappyHour), TipHappyHour)
    IN  AppendIf(t5, Contains(deals_text, Draft), TipDraft)

\* ------------------------------------------------------------------- state

VARIABLES
    df,                \* the specials table: a sequence of rows
    day,               \* the selected day
    rankings,          \* bar -> rating; a bar may be missing
    num_stops,
    style,
    budget_focus,
    scored,            \* bars_with_scores as appended, before the sort
    bars_with_scores,  \* bars_with_scores after the sort
    route,             \* the route returned, or handed to generate_route_tips
    tips,              \* the list generate_route_tips returned
    deal_text,         \* the argument of calculate_deal_score
    deal_result,       \* what calculate_deal_score returned
    pc                 \* "start", "returned", "raised", "scored", "tipped"

vars ==
    <<df, day, rankings, num_stops, style, budget_focus, scored,
      bars_with_scores, route, tips, deal_text, deal_result, pc>>

Tables == UNION { [1..n -> Specials] : n \in 0..MaxRows }

RankingMaps == UNION { [S -> Ratings] : S \in SUBSET Bars }

\* The bonus each row draws: random.uniform(0, 2) under Adventure Mix, and
\* no draw at all under the other styles.
Bonuses(st) ==
    IF st = "Adventure Mix"
        THEN { uniform(0, Num(2, 1), rnd) : rnd \in RandomValues }
    ELSE {0}

\* --------------------------------------------- Spec: generate_optimal_route

Init ==
    /\ df \in Tables
    /\ day \in Days
    /\ rankings \in RankingMaps
    /\ num_stops \in 1..MaxRows
    /\ style \in Styles
    /\ budget_focus \in BOOLEAN
    /\ scored = <<>>
    /\ bars_with_scores = <<>>
    /\ route = <<>>
    /\ tips = <<>>
    /\ deal_text = <<>>
    /\ deal_result = 0
    /\ pc = "start"

\* One call of generate_optimal_route(df, day, rankings, num_stops, style,
\* budget_focus): it returns [] early, raises KeyError, or returns the route.
generate_optimal_route ==
    /\ pc = "start"
    /\ \E day_data \in {DayData(df, day)} :
        \/ /\ TooFew(day_data, num_stops)
           /\ pc' = "returned"
           /\ UNCHANGED <<scored, bars_with_scores, route>>
        \/ /\ ~TooFew(day_data, num_stops)
           /\ \E bonuses \in [1..Len(day_data) -> Bonuses(style)] :
              \E res \in {ScoreRows(<<>>, day_data, rankings, style,
                                    budget_focus, bonuses)} :
                \/ /\ res.raised
                   /\ pc' = "raised"
                   /\ UNCHANGED <<scored, bars_with_scores, route>>
                \/ /\ ~res.raised
                   /\ pc' = "returned"
                   /\ scored' = res.rows
                   /\ bars_with_scores' = SortDesc(res.rows)
                   /\ route' = BuildRoute(
                                  Slice(bars_with_scores', num_stops),
                                  style, budget_focus)
    /\ UNCHANGED <<df, day, rankings, num_stops, style, budget_focus, tips,
                   deal_text, deal_result>>

Next == generate_optimal_route

Spec == Init /\ [][Next]_vars

\* ---------------------------------------- SpecScore: calculate_deal_score

InitScore ==
    /\ deal_text \in DealTexts
    /\ deal_result = 0
    /\ pc = "start"
    /\ df = <<>>
    /\ day = "Friday"
    /\ rankings = <<>>
    /\ num_stops = 1
    /\ style = "Optimized"
    /\ budget_focus = TRUE
    /\ scored = <<>>
    /\ bars_with_scores = <<>>
    /\ route = <<>>
    /\ tips = <<>>

\* deal_score = calculate_deal_score(deal)
ScoreDeal ==
    /\ pc = "start"
    /\ deal_result' = calculate_deal_score(deal_text)
    /\ pc' = "scored"
    /\ UNCHANGED <<df, day, rankings, num_stops, style, budget_focus, scored,
                   bars_with_scores, route, tips, deal_text>>

NextScore == ScoreDeal

SpecScore == InitScore /\ [][NextScore]_vars

\* ------------------------------------------ SpecTips: generate_route_tips

TipDeals == {TxtDraftsHappyHour, TxtGetHappy, TxtHourSpecial, TxtWineNight}

BarNames == <<"A", "B", "C", "D", "E", "F">>

\* The route generate_optimal_route returns for a table of one row per bar
\* with the given deals, every bar rated 8, as many stops as rows, and the
\* smallest draw.
RouteOf(deals, st, budget) ==
    LET rows == [i \in 1..Len(deals) |->
                    [Bar |-> BarNames[i], Day |-> "Friday", Deal |-> deals[i]]]
        ranks == [b \in {BarNames[i] : i \in 1..Len(deals)} |-> 8]
        res == ScoreRows(<<>>, rows, ranks, st, budget,
                         [i \in 1..Len(deals) |-> 0])
    IN  BuildRoute(Slice(SortDesc(res.rows), Len(deals)), st, budget)

InitTips ==
    /\ style \in Styles
    /\ budget_focus \in BOOLEAN
    /\ \E n \in 0..MaxStops : \E deals \in [1..n -> TipDeals] :
          /\ route = RouteOf(deals, style, budget_focus)
          /\ num_stops = n
    /\ tips = <<>>
    /\ pc = "start"
    /\ df = <<>>
    /\ day = "Friday"
    /\ rankings = <<>>
    /\ scored = <<>>
    /\ bars_with_scores = <<>>
    /\ deal_text = <<>>
    /\ deal_result = 0

\* tips = generate_route_tips(route, route_style, budget_conscious)
RouteTips ==
    /\ pc = "start"
    /\ tips' = generate_route_tips(route, style, budget_focus)
    /\ pc' = "tipped"
    /\ UNCHANGED <<df, day, rankings, num_stops, style, budget_focus, scored,
                   bars_with_scores, route, deal_text, deal_result>>

NextTips == RouteTips

SpecTips == InitTips /\ [][NextTips]_vars

\* ------------------------------------------------------------ properties

Range(f) == {f[i] : i \in DOMAIN f}

\* The selected day's records, and the bars that have one.
DayRows == DayData(df, day)
DayBars == {DayRows[i].Bar : i \in 1..Len(DayRows)}

\* The ratings mapping covers every bar of the selected day.
Covered == DayBars \subseteq DOMAIN rankings

\* C1 as stated: a returned route has length min(num_stops, number of
\* distinct bars with a special on the day).
C1_LengthIsMinOfStopsAndBars ==
    (pc = "returned" /\ Covered)
        => Len(route) = Min(num_stops, Cardinality(DayBars))

\* C1 amended: a returned route has exactly num_stops stops when the day
\* has at least num_stops records, and is empty otherwise (so also for an
\* empty day).
C1_LengthIsStopsOrZero ==
    pc = "returned"
        => Len(route) = IF Len(DayRows) >= num_stops THEN num_stops ELSE 0

C1_Witness ==
    /\ pc = "returned"
    /\ Covered
    /\ Len(DayRows) = 3
    /\ num_stops = 2
    /\ Len(route) = 2

\* C2: with fewer distinct bars on the day than num_stops the call returns
\* the empty route and raises nothing, duplicate rows or not.
C2_FewDistinctBarsGiveEmptyRoute ==
    (pc # "start" /\ Covered /\ Cardinality(DayBars) < num_stops)
        => (pc = "returned" /\ route = <<>>)

\* What identifies a candidate and a stop in the comparisons below.
CandKey(c) == <<c.bar, c.deal, c.total_score>>
StopKey(stop) == <<stop.bar, stop.deal, stop.score>>

\* The keys of the entries of seq whose score is sc, in order.
KeysWithScore(keys, sc) == SelectSeq(keys, LAMBDA k : k[3] = sc)

\* C3: a non-empty route holds num_stops stops in non-increasing order of
\* score; among the candidates of one score it holds the first ones, in the
\* order of the day's data; and it holds every candidate that scores more
\* than its last stop.
C3_TopScoresInStableOrder ==
    (pc = "returned" /\ route # <<>>) =>
        LET cands  == [i \in 1..Len(scored) |-> CandKey(scored[i])]
            picked == [i \in 1..Len(route) |-> StopKey(route[i])]
            lowest == route[Len(route)].score
        IN  /\ Len(route) = num_stops
            /\ \A i, j \in 1..Len(route) :
                  i < j => route[i].score >= route[j].score
            /\ \A c \in Range(cands) :
                  LET all  == KeysWithScore(cands, c[3])
                      mine == KeysWithScore(picked, c[3])
                  IN  /\ Len(mine) <= Len(all)
                      /\ mine = SubSeq(all, 1, Len(mine))
                      /\ c[3] > lowest => mine = all
            /\ Range(picked) \subseteq Range(cands)

\* Two different candidates tie and only some of the candidates are chosen.
C3_Witness ==
    /\ pc = "returned"
    /\ route # <<>>
    /\ Len(route) < Len(scored)
    /\ \E i, j \in 1..Len(scored) :
          /\ i < j
          /\ scored[i].total_score = scored[j].total_score
          /\ scored[i].bar # scored[j].bar
          /\ scored[j].total_score = route[Len(route)].score

\* The closed form of C4, in units: P, V and M counted over sets.
PricePoints(text) ==
    CASE \E w \in {Dollar1, Dollar2} : Contains(text, w) -> 3
      [] Contains(text, Dollar3) -> 2
      [] \E w \in {Dollar4, Dollar5} : Contains(text, w) -> 1
      [] OTHER -> 0
ValueCount(text) ==
    Cardinality({w \in {HappyHour, HalfOff, Draft, FiftyCent, Pitcher} :
                    Contains(Lower(text), w)})
PremiumCount(text) ==
    Cardinality({w \in {Wine, Cocktail, Premium} : Contains(Lower(text), w)})

\* C4: calculate_deal_score returns min(10, 5 + P + V + 0.5*M); the result
\* lies in [0, 10], is 5 when nothing matches and 10 for
\* "$1 drafts, happy hour".
C4_DealScoreClosedForm ==
    pc = "scored" =>
        LET P == PricePoints(deal_text)
            V == ValueCount(deal_text)
            M == PremiumCount(deal_text)
        IN  /\ 2 * deal_result = Min(20 * Unit, (10 + 2 * P + 2 * V + M) * Unit)
            /\ deal_result >= 0
            /\ deal_result <= 10 * Unit
            /\ (P = 0 /\ V = 0 /\ M = 0) => deal_result = 5 * Unit
            /\ deal_text = TxtDraftsHappyHour => deal_result = 10 * Unit

\* A text whose cues add up to more than 10, scored 10.
C4_Witness ==
    /\ pc = "scored"
    /\ 10 + 2 * PricePoints(deal_text) + 2 * ValueCount(deal_text)
          + PremiumCount(deal_text) > 20
    /\ PremiumCount(deal_text) = 1
    /\ deal_result = 10 * Unit

\* The Friday scenario of the specification.
FridayScenario ==
    /\ df = << [Bar |-> "A", Day |-> "Friday", Deal |-> TxtOneBeer],
               [Bar |-> "B", Day |-> "Friday", Deal |-> TxtWineNight] >>
    /\ day = "Friday"
    /\ rankings = ("A" :> 9) @@ ("B" :> 3)
    /\ num_stops = 2
    /\ style = "Optimized"
    /\ budget_focus

\* C5: under High-rated Only a stop scores rating * 1.5 and under Optimized
\* rating + deal_score * 0.5, deal_score being calculate_deal_score(deal)
\* with budget_focus and 5 without; so Optimized without budget_focus gives
\* rating + 2.5, and the Friday scenario gives [A, B] with 13 and 5.75.
C5_ScoreIsFunctionOfRatingDealStyle ==
    pc = "returned" =>
        /\ \A i \in 1..Len(route) :
              LET r  == rankings[route[i].bar]
                  ds == IF budget_focus
                            THEN calculate_deal_score(route[i].deal)
                        ELSE 5 * Unit
              IN  /\ style = "High-rated Only"
                        => 2 * route[i].score = 3 * r * Unit
                  /\ style = "Optimized"
                        => 2 * route[i].score = 2 * r * Unit + ds
                  /\ (style = "Optimized" /\ ~budget_focus)
                        => 2 * route[i].score = (2 * r + 5) * Unit
        /\ FridayScenario =>
              /\ [i \in 1..Len(route) |-> route[i].bar] = <<"A", "B">>
              /\ route[1].score = 13 * Unit
              /\ 4 * route[2].score = 23 * Unit

C5_Witness ==
    /\ pc = "returned"
    /\ FridayScenario
    /\ Len(route) = 2

\* rating + deal_score * 0.3, as the program computes it.
AdventureBase(c) == FAdd(Num(c.rating, 1), FMul(c.deal_score, Point3))

\* C6 as stated: under Adventure Mix every candidate's total_score is at
\* least rating + deal_score*0.3 and stays below rating + deal_score*0.3 + 2.
C6_ScoreInHalfOpenInterval ==
    (pc = "returned" /\ style = "Adventure Mix") =>
        \A i \in 1..Len(scored) :
            /\ scored[i].total_score >= AdventureBase(scored[i])
            /\ scored[i].total_score
                  < FAdd(AdventureBase(scored[i]), Num(2, 1))

\* C6 amended: the total_score is at least rating + deal_score*0.3 and at
\* most rating + deal_score*0.3 + 2; the sum of the base and a draw below 2
\* may round up to the upper bound.
C6_ScoreInClosedInterval ==
    (pc = "returned" /\ style = "Adventure Mix") =>
        \A i \in 1..Len(scored) :
            /\ scored[i].total_score >= AdventureBase(scored[i])
            /\ scored[i].total_score
                  <= FAdd(AdventureBase(scored[i]), Num(2, 1))

\* Two rows of one bar and one deal drew different bonuses, one of them 0.
C6_Witness ==
    /\ pc = "returned"
    /\ style = "Adventure Mix"
    /\ \E i, j \in 1..Len(scored) :
          /\ scored[i].bar = scored[j].bar
          /\ scored[i].deal = scored[j].deal
          /\ scored[i].total_score = AdventureBase(scored[i])
          /\ scored[j].total_score > AdventureBase(scored[j])

\* C7 as stated: a call with a bar of the day missing from the ratings
\* always raises.
C7_MissingRatingAlwaysRaises ==
    (pc # "start" /\ ~Covered) => pc = "raised"

\* C7 amended: the call raises exactly when the day has at least num_stops
\* records and one of its bars has no rating; no returned route holds a bar
\* without a rating;  with fewer records than num_stops it returns the
\* empty route, whatever the ratings.
C7_MissingRatingRaisesUnlessTooFew ==
    /\ pc # "start" =>
          (pc = "raised" <=> (~Covered /\ Len(DayRows) >= num_stops))
    /\ pc = "returned" =>
          \A i \in 1..Len(route) : route[i].bar \in DOMAIN rankings
    /\ (pc # "start" /\ Len(DayRows) < num_stops) =>
          (pc = "returned" /\ route = <<>>)

C7_Witness ==
    /\ pc = "raised"
    /\ ~Covered
    /\ Len(DayRows) = 2
    /\ DayRows[1].Bar \in DOMAIN rankings

\* C8: the happy-hour tip is given exactly when the deal of some single stop
\* contains "happy hour", whatever the case of its letters.
C8_HappyHourTipIffSomeStopHasIt ==
    pc = "tipped" =>
        (TipHappyHour \in Range(tips)
            <=> \E i \in 1..Len(route) :
                    Contains(Lower(route[i].deal), HappyHour))

StyleTips == {TipHighRated, TipAdventure, TipOptimized}

\* C9: the tips hold no duplicate, start with the ride-sharing and the
\* hydration tip followed by the one style tip, hold the two budget tips
\* iff budget_focus, and the pacing tip iff the route has 4 stops or more.
C9_TipsStructure ==
    pc = "tipped" =>
        /\ \A i, j \in 1..Len(tips) : i # j => tips[i] # tips[j]
        /\ Len(tips) >= 3
        /\ tips[1] = TipRide
        /\ tips[2] = TipWater
        /\ tips[3] = (CASE style = "High-rated Only" -> TipHighRated
                        [] style = "Adventure Mix" -> TipAdventure
                        [] OTHER -> TipOptimized)
        /\ Cardinality({i \in 1..Len(tips) : tips[i] \in StyleTips}) = 1
        /\ \A t \in {TipBudgetSpecials, TipBudgetHappyHour} :
              t \in Range(tips) <=> budget_focus
        /\ TipPace \in Range(tips) <=> Len(route) >= 4

C9_Witness ==
    /\ pc = "tipped"
    /\ Len(route) = 4
    /\ budget_focus
    /\ TipPace \in Range(tips)
    /\ TipBudgetHappyHour \in Range(tips)

\* C10: the reason of the first stop is the starter message for a rating of
\* 8 or more and the kick-off message otherwise; the reason of every later
\* stop, the last included, is the mid-night message; no other reason is
\* ever given.
C10_ReasonByPositionAndRating ==
    pc = "returned" =>
        \A i \in 1..Len(route) :
            /\ route[i].reason =
                  IF i = 1
                      THEN IF rankings[route[i].bar] >= 8
                               THEN PerfectStarter ELSE GreatKickOff
                  ELSE ExcellentMid
            /\ route[i].reason \notin
                  {PerfectFinale, GreatDeals, TryNew, SolidChoice,
                   HighRating(rankings[route[i].bar])}

\* A last stop with a high rating and a great deal under budget focus.
C10_Witness ==
    /\ pc = "returned"
    /\ Len(route) = 3
    /\ budget_focus
    /\ rankings[route[3].bar] >= 8
    /\ route[3].reason = ExcellentMid
    /\ route[1].reason = PerfectStarter

\* C11: a returned route visits each bar at most once: no two stops carry
\* the same bar name, also when the day holds several records of one bar.
C11_NoBarTwiceInRoute ==
    pc = "returned" =>
        \A i, j \in 1..Len(route) :
            i # j => route[i].bar # route[j].bar

====
